---- MODULE Spec2Model ----
(***************************************************************************)
(* A model of the Slider component (src/unnamed/part_000) of material-ui: *)
(* its React state, its props, the document-level listeners it registers, *)
(* the animation-frame callbacks it schedules and the notifications it    *)
(* fires, driven by pointer, touch, keyboard, focus, hover, prop-update   *)
(* and unmount events; and of the style utility (src/unnamed/part_001):   *)
(* ensureDirection, which mirrors a style descriptor for a right-to-left  *)
(* theme, and prepareStyles, which every component calls before rendering.*)
(*                                                                         *)
(* Numbers.  Slider values are JavaScript numbers.  The model counts them *)
(* in units of 10^-6, as integers, and computes with exact arithmetic, so *)
(* that toFixed(5) (rounding to a multiple of 10 units) is a real         *)
(* conversion.  A percent is an exact fraction [n, d] in lowest terms.    *)
(*                                                                         *)
(* React.  Inside a React event handler setState is batched: this.state   *)
(* keeps its old value until every handler of the event has run, then the *)
(* pending updates are applied and the setState callbacks run.  Inside a  *)
(* native document listener or an animation-frame callback setState is    *)
(* applied at once.  Handlers are operators from a context record c to a  *)
(* context record; an action runs the handlers of one event in order.     *)
(***************************************************************************)
EXTENDS Integers, Sequences, FiniteSets, TLC

VARIABLES
  props,        \* this.props: min, max, step, disabled
  state,        \* this.state: active, dragging, focused, hovered, percent, value
  dragRunning,  \* this.dragRunning
  listeners,    \* document-level listeners: <<event type, handler>>
  rafQueue,     \* callbacks given to requestAnimationFrame, not yet run
  mounted,      \* the component is mounted
  notified,     \* notifications (prop callbacks) fired by the last event, in order
  last,         \* the last event: its name and the position pressed or the value supplied
  frames,       \* animation frames that have run callbacks
  processed,    \* move updates processed (onDragUpdate calls)
  muiTheme,     \* the theme handed to the style utility: absent, left-to-right or right-to-left
  nodeEnv,      \* process.env.NODE_ENV
  style,        \* the descriptor handed to the last call of the style utility
  flipped,      \* the descriptor the last call returned (before any call: the one to hand over)
  warned,       \* the last call raised the duplicate-flip warning
  origin        \* where the descriptor handed to the last call came from

\* the Slider's variables
sliderVars == <<props, state, dragRunning, listeners, rafQueue, mounted, notified, last,
                frames, processed>>

\* the style utility's variables
styleVars == <<muiTheme, nodeEnv, style, flipped, warned, origin>>

vars == <<sliderVars, styleVars>>

-----------------------------------------------------------------------------
(* Bounds and constants *)

\* refs.track.clientWidth, in pixels
TrackWidth == 2

\* at most this many animation frames are counted
MaxFrames == 2

\* units (10^-6) in one step of toFixed(5)
Fix5Unit == 10

\* a prop that is not supplied (JavaScript undefined)
Undefined == -1

\* min, max, step: a step that divides the range, a step that does not, and a
\* step below the resolution of toFixed(5)
Configs ==
  { [min |-> 10, max |-> 50, step |-> 20],
    [min |-> 0,  max |-> 50, step |-> 20],
    [min |-> 0,  max |-> 20, step |-> 4] }

\* values a parent may supply as value / defaultValue: within [min, max]
\* (valueInRangePropType), the third one not aligned to the step
ExternalValues(cfg) == { cfg.min, cfg.max, cfg.min + Fix5Unit }

\* event.clientX - getTrackLeft(): left of the track, on it, right of it
Positions == (0 - 1) .. (TrackWidth + 1)

Keys == { "left", "down", "page down", "right", "up", "page up", "home", "end", "a" }

-----------------------------------------------------------------------------
(* Numbers *)

Abs(x) == IF x < 0 THEN 0 - x ELSE x

Sign(x) == IF x < 0 THEN 0 - 1 ELSE IF x = 0 THEN 0 ELSE 1

RECURSIVE GCD(_, _)
GCD(a, b) == IF b = 0 THEN a ELSE GCD(b, a % b)

\* the number n / d; d = 0 gives NaN ([0, 0]) or an infinity ([+-1, 0])
Rat(n, d) ==
  IF d = 0 THEN [n |-> Sign(n), d |-> 0]
  ELSE LET g == GCD(Abs(n), Abs(d))
           s == Sign(d)
       IN  [n |-> s * (n \div g), d |-> s * (d \div g)]

IsNaN(q) == q.n = 0 /\ q.d = 0

RatLeq(p, q) == p.n * q.d <= q.n * p.d

\* mutant: the quotient is truncated (Math.floor) instead of rounded
MathFloorInsteadOfRound(n, d) == n \div d

\* Math.round of the number n / d, d > 0: the nearest integer, halves going up
MathRound(n, d) == (2 * n + d) \div (2 * d)

\* parseFloat(x.toFixed(5)): the nearest multiple of 10^-5, halves going away from zero
ToFixed5(x) == Sign(x) * (((Abs(x) + Fix5Unit \div 2) \div Fix5Unit) * Fix5Unit)

Min2(a, b) == IF a < b THEN a ELSE b

Max2(a, b) == IF a > b THEN a ELSE b

-----------------------------------------------------------------------------
(* React plumbing *)

Note(name, arg) == [name |-> name, arg |-> arg]

Merge(s, patch) == [f \in DOMAIN s |-> IF f \in DOMAIN patch THEN patch[f] ELSE s[f]]

\* this.setState(patch, callback); cb is "none" or the notification the callback fires
SetState(c, patch, cb) ==
  IF ~c.mounted THEN c
  ELSE IF c.batching
    THEN [c EXCEPT !.pend = Merge(@, patch),
                   !.cbs = IF cb = "none" THEN @ ELSE Append(@, cb)]
    ELSE LET s == Merge(c.state, patch)
         IN  [c EXCEPT !.state = s, !.pend = s,
                       !.notes = IF cb = "none" THEN @ ELSE Append(@, Note(cb, s.value))]

\* the end of a batched event: pending state applied, then the setState callbacks
Flush(c) ==
  [c EXCEPT !.state = c.pend,
            !.cbs = << >>,
            !.notes = @ \o [i \in 1 .. Len(c.cbs) |-> Note(c.cbs[i], c.pend.value)]]

\* a prop callback called directly
Fire(c, name) == [c EXCEPT !.notes = Append(@, Note(name, 0))]

AddEventListener(c, type, handler) ==
  [c EXCEPT !.listeners = @ \cup { <<type, handler>> }]

RemoveEventListener(c, type, handler) ==
  [c EXCEPT !.listeners = @ \ { <<type, handler>> }]

\* the component as an event finds it
Ctx(batching) ==
  [ props |-> props, state |-> state, pend |-> state, cbs |-> << >>,
    batching |-> batching, mounted |-> mounted, dragRunning |-> dragRunning,
    listeners |-> listeners, raf |-> rafQueue, notes |-> << >>,
    domFocus |-> state.focused, ran |-> 0 ]

-----------------------------------------------------------------------------
(* Slider: value arithmetic *)

\* percentToValue(percent): percent * (max - min) + min
percentToValue(c, percent) ==
  Rat(percent.n * (c.props.max - c.props.min) + c.props.min * percent.d, percent.d)

\* alignValue(val): Math.round((val - min) / step) * step + min, through toFixed(5)
alignValue(c, val) ==
  LET step == c.props.step
      min == c.props.min
      aligned == MathRound(val.n - min * val.d, val.d * step) * step + min
  IN  ToFixed5(aligned)

\* (value - min) / (max - min), 0 when that is NaN
PercentOf(c, value) ==
  LET percent == Rat(value - c.props.min, c.props.max - c.props.min)
  IN  IF IsNaN(percent) THEN Rat(0, 1) ELSE percent

\* setValue(i)
setValue(c, i) == SetState(c, [value |-> i, percent |-> PercentOf(c, i)], "none")

\* setPercent(percent, callback)
setPercent(c, percent, cb) ==
  LET value == alignValue(c, percentToValue(c, percent))
      alignedPercent == Rat(value - c.props.min, c.props.max - c.props.min)
  IN  IF c.state.value # value
        THEN SetState(c, [value |-> value, percent |-> alignedPercent], cb)
        ELSE c

\* updateWithChangeEvent(event, percent)
updateWithChangeEvent(c, percent) == setPercent(c, percent, "onChange")

\* dragX(event, pos)
dragX(c, pos) ==
  LET max == TrackWidth
      p == IF pos < 0 THEN 0 ELSE IF pos > max THEN max ELSE pos
  IN  updateWithChangeEvent(c, Rat(p, max))

-----------------------------------------------------------------------------
(* Slider: drag start, update, stop *)

\* onDragStart(event)
onDragStart(c) ==
  Fire(SetState(c, [dragging |-> TRUE, active |-> TRUE], "none"), "onDragStart")

\* onDragStop(event)
onDragStop(c) ==
  Fire(SetState(c, [dragging |-> FALSE, active |-> FALSE], "none"), "onDragStop")

\* mutant: the update is applied whether or not a drag is in progress
onDragUpdateWhileIdle(c, pos) ==
  IF ~c.props.disabled THEN dragX(c, pos) ELSE c

\* mutant: the update is applied whether or not the slider is disabled
onDragUpdateWhileDisabled(c, pos) ==
  IF ~c.state.dragging THEN c ELSE dragX(c, pos)

\* onDragUpdate(event, pos)
onDragUpdate(c, pos) ==
  IF ~c.state.dragging THEN c
  ELSE IF ~c.props.disabled THEN dragX(c, pos)
  ELSE c

\* handleFocus(event)
handleFocus(c) == Fire(SetState(c, [focused |-> TRUE], "none"), "onFocus")

\* handleBlur(event)
handleBlur(c) ==
  Fire(SetState(c, [focused |-> FALSE, active |-> FALSE], "none"), "onBlur")

\* this.refs.handle.focus(): a focus event, unless the handle has the focus already
FocusHandle(c) ==
  IF c.domFocus THEN c ELSE handleFocus([c EXCEPT !.domFocus = TRUE])

\* onHandleTouchStart(event)
onHandleTouchStart(c) ==
  LET c1 == AddEventListener(c, "touchmove", "dragTouchHandler")
      c2 == AddEventListener(c1, "touchup", "dragTouchEndHandler")
      c3 == AddEventListener(c2, "touchend", "dragTouchEndHandler")
      c4 == AddEventListener(c3, "touchcancel", "dragTouchEndHandler")
  IN  onDragStart(c4)

\* onHandleMouseDown(event)
onHandleMouseDown(c) ==
  LET c1 == AddEventListener(c, "mousemove", "dragHandler")
      c2 == AddEventListener(c1, "mouseup", "dragEndHandler")
  IN  onDragStart(FocusHandle(c2))

\* mutant: a touch on the track starts the drag without jumping to the touch
handleTouchStartWithoutJump(c, pos) ==
  IF ~c.props.disabled /\ ~c.state.dragging THEN onHandleTouchStart(c) ELSE c

\* handleTouchStart(event): the root element's onTouchStart
handleTouchStart(c, pos) ==
  IF ~c.props.disabled /\ ~c.state.dragging
    THEN onHandleTouchStart(dragX(c, pos))
    ELSE c

\* mutant: the root element's onMouseDown does not look at disabled
handleMouseDownWhenDisabled(c, pos) ==
  IF ~c.state.dragging THEN onHandleMouseDown(dragX(c, pos)) ELSE c

\* handleMouseDown(event): the root element's onMouseDown
handleMouseDown(c, pos) ==
  IF ~c.props.disabled /\ ~c.state.dragging
    THEN onHandleMouseDown(dragX(c, pos))
    ELSE c

\* handleMouseUp()
handleMouseUp(c) ==
  IF ~c.props.disabled THEN SetState(c, [active |-> FALSE], "none") ELSE c

\* handleMouseEnter()
handleMouseEnter(c) == SetState(c, [hovered |-> TRUE], "none")

\* handleMouseLeave()
handleMouseLeave(c) == SetState(c, [hovered |-> FALSE], "none")

\* mutant: the handle carries its drag handlers even when disabled
HandleAlwaysHasDragProps(c) == TRUE

\* render(): the handle carries its drag handlers only when not disabled
HandleHasDragProps(c) == ~c.props.disabled

\* mutant: a move schedules an update even while one is pending
ScheduleDragUnguarded(c, pos) ==
  [c EXCEPT !.dragRunning = TRUE, !.raf = Append(@, pos)]

\* dragHandler(event) and dragTouchHandler(event): one pending update at most
ScheduleDrag(c, pos) ==
  IF c.dragRunning THEN c
  ELSE [c EXCEPT !.dragRunning = TRUE,
                 !.raf = Append(@, pos)]

dragHandler(c, pos) == ScheduleDrag(c, pos)

dragTouchHandler(c, pos) == ScheduleDrag(c, pos)

\* the callback given to requestAnimationFrame.  getTrackLeft() reads
\* this.refs.track, which is gone once the component is unmounted: the callback
\* then throws before onDragUpdate is called and before dragRunning is reset.
DragFrameCallback(c, pos) ==
  IF ~c.mounted THEN c
  ELSE [onDragUpdate(c, pos) EXCEPT !.dragRunning = FALSE, !.ran = @ + 1]

RECURSIVE RunCallbacks(_, _)
RunCallbacks(c, q) ==
  IF q = << >> THEN c ELSE RunCallbacks(DragFrameCallback(c, Head(q)), Tail(q))

\* dragEndHandler(event)
dragEndHandler(c) ==
  LET c1 == RemoveEventListener(c, "mousemove", "dragHandler")
      c2 == RemoveEventListener(c1, "mouseup", "dragEndHandler")
  IN  onDragStop(c2)

\* mutant: the touch listeners are removed but the drag is not stopped
dragTouchEndHandlerWithoutStop(c) ==
  LET c1 == RemoveEventListener(c, "touchmove", "dragTouchHandler")
      c2 == RemoveEventListener(c1, "touchup", "dragTouchEndHandler")
      c3 == RemoveEventListener(c2, "touchend", "dragTouchEndHandler")
  IN  RemoveEventListener(c3, "touchcancel", "dragTouchEndHandler")

\* dragTouchEndHandler(event)
dragTouchEndHandler(c) ==
  LET c1 == RemoveEventListener(c, "touchmove", "dragTouchHandler")
      c2 == RemoveEventListener(c1, "touchup", "dragTouchEndHandler")
      c3 == RemoveEventListener(c2, "touchend", "dragTouchEndHandler")
      c4 == RemoveEventListener(c3, "touchcancel", "dragTouchEndHandler")
  IN  onDragStop(c4)

-----------------------------------------------------------------------------
(* Slider: keyboard *)

\* the switch on keycode(event)
KeyAction(key) ==
  IF key \in { "page down", "left", "down" } THEN "decrease"
  ELSE IF key \in { "page up", "right", "up" } THEN "increase"
  ELSE IF key = "home" THEN "home"
  ELSE IF key = "end" THEN "end"
  ELSE "none"

\* onHandleKeyDown(event)
onHandleKeyDown(c, key) ==
  LET min == c.props.min
      max == c.props.max
      step == c.props.step
      action == KeyAction(key)
      newValue ==
        CASE action = "decrease" -> Max2(min, c.state.value - step)
          [] action = "increase" -> Min2(max, c.state.value + step)
          [] action = "home" -> min
          [] action = "end" -> max
          [] OTHER -> c.state.value
      newPercent ==
        CASE action = "home" -> Rat(0, 1)
          [] action = "end" -> Rat(1, 1)
          [] OTHER -> Rat(newValue - min, max - min)
  IN  IF action # "none" /\ c.state.value # newValue
        THEN SetState(c, [percent |-> newPercent, value |-> ToFixed5(newValue)], "onChange")
        ELSE c

-----------------------------------------------------------------------------
(* Slider: lifecycle *)

\* mutant: defaultValue is preferred to value
componentWillMountDefaultFirst(p, propValue, defaultValue) ==
  LET value == IF defaultValue # Undefined THEN defaultValue
               ELSE IF propValue # Undefined THEN propValue
               ELSE p.min
      pc == Rat(value - p.min, p.max - p.min)
      percent == IF IsNaN(pc) THEN Rat(0, 1) ELSE pc
  IN  [ active |-> FALSE, dragging |-> FALSE, focused |-> FALSE, hovered |-> FALSE,
        percent |-> percent, value |-> value ]

\* componentWillMount(): the state after construction
componentWillMount(p, propValue, defaultValue) ==
  LET value == IF propValue # Undefined THEN propValue
               ELSE IF defaultValue # Undefined THEN defaultValue
               ELSE p.min
      pc == Rat(value - p.min, p.max - p.min)
      percent == IF IsNaN(pc) THEN Rat(0, 1) ELSE pc
  IN  [ active |-> FALSE, dragging |-> FALSE, focused |-> FALSE, hovered |-> FALSE,
        percent |-> percent, value |-> value ]

\* mutant: the new value is applied during a drag as well
componentWillReceivePropsWhileDragging(c, nextValue) ==
  IF nextValue # Undefined THEN setValue(c, nextValue) ELSE c

\* componentWillReceiveProps(nextProps)
componentWillReceiveProps(c, nextValue) ==
  IF nextValue # Undefined /\ ~c.state.dragging THEN setValue(c, nextValue) ELSE c

-----------------------------------------------------------------------------
(* The state machine *)

Event(op, arg) == [op |-> op, arg |-> arg]

\* the style utility at rest, in the specifications of the Slider
NoStyleCall ==
  /\ muiTheme = "undefined"
  /\ nodeEnv = "production"
  /\ style = << >>
  /\ flipped = << >>
  /\ warned = FALSE
  /\ origin = "input"

Init ==
  \E cfg \in Configs, disabled \in BOOLEAN :
    \E propValue \in ExternalValues(cfg) \cup { Undefined },
       defaultValue \in ExternalValues(cfg) \cup { Undefined } :
      /\ props = [min |-> cfg.min, max |-> cfg.max, step |-> cfg.step,
                  disabled |-> disabled]
      /\ state = componentWillMount(cfg, propValue, defaultValue)
      /\ dragRunning = FALSE
      /\ listeners = { }
      /\ rafQueue = << >>
      /\ mounted = TRUE
      /\ notified = << >>
      /\ last = Event("mount", 0)
      /\ frames = 0
      /\ processed = 0
      /\ NoStyleCall

\* what an event leaves behind
Commit(c, event) ==
  /\ state' = c.state
  /\ dragRunning' = c.dragRunning
  /\ listeners' = c.listeners
  /\ rafQueue' = c.raf
  /\ notified' = c.notes
  /\ last' = event

\* mousedown on the track, beside the handle: the root element's handler
TrackMouseDown(pos) ==
  /\ mounted
  /\ Commit(Flush(handleMouseDown(Ctx(TRUE), pos)), Event("TrackMouseDown", pos))
  /\ UNCHANGED <<props, mounted, frames, processed, styleVars>>

\* mousedown on the handle: the handle's handler, then, the event bubbling within
\* the same batch, the root element's
HandleMouseDown(pos) ==
  /\ mounted
  /\ LET c0 == Ctx(TRUE)
         c1 == IF HandleHasDragProps(c0) THEN onHandleMouseDown(c0) ELSE c0
     IN  Commit(Flush(handleMouseDown(c1, pos)), Event("HandleMouseDown", pos))
  /\ UNCHANGED <<props, mounted, frames, processed, styleVars>>

\* touchstart on the track, beside the handle
TrackTouchStart(pos) ==
  /\ mounted
  /\ Commit(Flush(handleTouchStart(Ctx(TRUE), pos)), Event("TrackTouchStart", pos))
  /\ UNCHANGED <<props, mounted, frames, processed, styleVars>>

\* touchstart on the handle
HandleTouchStart(pos) ==
  /\ mounted
  /\ LET c0 == Ctx(TRUE)
         c1 == IF HandleHasDragProps(c0) THEN onHandleTouchStart(c0) ELSE c0
     IN  Commit(Flush(handleTouchStart(c1, pos)), Event("HandleTouchStart", pos))
  /\ UNCHANGED <<props, mounted, frames, processed, styleVars>>

\* mousemove anywhere in the document
MouseMove(pos) ==
  /\ LET c0 == Ctx(FALSE)
         c1 == IF <<"mousemove", "dragHandler">> \in listeners
                 THEN dragHandler(c0, pos) ELSE c0
     IN  Commit(c1, Event("MouseMove", 0))
  /\ UNCHANGED <<props, mounted, frames, processed, styleVars>>

\* touchmove anywhere in the document
TouchMove(pos) ==
  /\ LET c0 == Ctx(FALSE)
         c1 == IF <<"touchmove", "dragTouchHandler">> \in listeners
                 THEN dragTouchHandler(c0, pos) ELSE c0
     IN  Commit(c1, Event("TouchMove", 0))
  /\ UNCHANGED <<props, mounted, frames, processed, styleVars>>

\* mouseup anywhere in the document; over the slider it first reaches the root
\* element's onMouseUp, then the document listener
MouseUp(over) ==
  /\ LET c0 == Ctx(TRUE)
         c1 == IF over /\ mounted THEN Flush(handleMouseUp(c0)) ELSE c0
         c2 == [c1 EXCEPT !.batching = FALSE]
         c3 == IF <<"mouseup", "dragEndHandler">> \in listeners
                 THEN dragEndHandler(c2) ELSE c2
     IN  Commit(c3, Event("MouseUp", 0))
  /\ UNCHANGED <<props, mounted, frames, processed, styleVars>>

\* touchend or touchcancel anywhere in the document
TouchEnd(type) ==
  /\ LET c0 == Ctx(FALSE)
         c1 == IF <<type, "dragTouchEndHandler">> \in listeners
                 THEN dragTouchEndHandler(c0) ELSE c0
     IN  Commit(c1, Event("TouchEnd", 0))
  /\ UNCHANGED <<props, mounted, frames, processed, styleVars>>

\* keydown with the handle focused
KeyDown(key) ==
  /\ mounted
  /\ state.focused
  /\ LET c0 == Ctx(TRUE)
         c1 == IF HandleHasDragProps(c0) THEN onHandleKeyDown(c0, key) ELSE c0
     IN  Commit(Flush(c1), Event("KeyDown", 0))
  /\ UNCHANGED <<props, mounted, frames, processed, styleVars>>

\* the handle takes the focus
Focus ==
  /\ mounted
  /\ ~state.focused
  /\ Commit(Flush(handleFocus(Ctx(TRUE))), Event("Focus", 0))
  /\ UNCHANGED <<props, mounted, frames, processed, styleVars>>

\* the handle loses the focus
Blur ==
  /\ mounted
  /\ state.focused
  /\ Commit(Flush(handleBlur(Ctx(TRUE))), Event("Blur", 0))
  /\ UNCHANGED <<props, mounted, frames, processed, styleVars>>

\* the pointer enters the slider
MouseEnter ==
  /\ mounted
  /\ ~state.hovered
  /\ Commit(Flush(handleMouseEnter(Ctx(TRUE))), Event("MouseEnter", 0))
  /\ UNCHANGED <<props, mounted, frames, processed, styleVars>>

\* the pointer leaves the slider
MouseLeave ==
  /\ mounted
  /\ state.hovered
  /\ Commit(Flush(handleMouseLeave(Ctx(TRUE))), Event("MouseLeave", 0))
  /\ UNCHANGED <<props, mounted, frames, processed, styleVars>>

\* the parent renders the slider again, with a value (or none) and a disabled flag
ReceiveProps(nextValue, nextDisabled) ==
  /\ mounted
  /\ Commit(Flush(componentWillReceiveProps(Ctx(TRUE), nextValue)),
            Event("ReceiveProps", nextValue))
  /\ props' = [props EXCEPT !.disabled = nextDisabled]
  /\ UNCHANGED <<mounted, frames, processed, styleVars>>

\* the component is unmounted; the class has no componentWillUnmount
Unmount ==
  /\ mounted
  /\ mounted' = FALSE
  /\ notified' = << >>
  /\ last' = Event("Unmount", 0)
  /\ UNCHANGED <<props, state, dragRunning, listeners, rafQueue, frames, processed, styleVars>>

\* an animation frame: the scheduled callbacks run
Frame ==
  /\ rafQueue # << >>
  /\ Commit(RunCallbacks([Ctx(FALSE) EXCEPT !.raf = << >>], rafQueue), Event("Frame", 0))
  /\ UNCHANGED <<props, mounted, frames, processed, styleVars>>

\* the same, the frames and the updates they process counted
CountedFrame ==
  /\ rafQueue # << >>
  /\ frames < MaxFrames
  /\ LET c == RunCallbacks([Ctx(FALSE) EXCEPT !.raf = << >>], rafQueue)
     IN  /\ Commit(c, Event("Frame", 0))
         /\ processed' = processed + c.ran
  /\ frames' = frames + 1
  /\ UNCHANGED <<props, mounted, styleVars>>

Next ==
  \/ \E pos \in Positions : TrackMouseDown(pos)
  \/ \E pos \in Positions : HandleMouseDown(pos)
  \/ \E pos \in Positions : TrackTouchStart(pos)
  \/ \E pos \in Positions : HandleTouchStart(pos)
  \/ \E pos \in Positions : MouseMove(pos)
  \/ \E pos \in Positions : TouchMove(pos)
  \/ \E over \in BOOLEAN : MouseUp(over)
  \/ \E type \in { "touchend", "touchcancel" } : TouchEnd(type)
  \/ \E key \in Keys : KeyDown(key)
  \/ Focus
  \/ Blur
  \/ MouseEnter
  \/ MouseLeave
  \/ \E v \in ExternalValues(props) \cup { Undefined }, d \in BOOLEAN : ReceiveProps(v, d)
  \/ Unmount
  \/ Frame

Spec == Init /\ [][Next]_vars

\* The drag pipeline (press, move, end, frame, unmount) with every scheduled
\* animation-frame callback eventually run: the browser runs the callbacks given
\* to requestAnimationFrame before its next repaint.  Focus, hover, keyboard and
\* prop updates are left out: they touch neither dragRunning nor the frame queue.
NextLive ==
  \/ \E pos \in Positions : TrackMouseDown(pos)
  \/ \E pos \in Positions : HandleMouseDown(pos)
  \/ \E pos \in Positions : TrackTouchStart(pos)
  \/ \E pos \in Positions : HandleTouchStart(pos)
  \/ \E pos \in Positions : MouseMove(pos)
  \/ \E pos \in Positions : TouchMove(pos)
  \/ \E over \in BOOLEAN : MouseUp(over)
  \/ \E type \in { "touchend", "touchcancel" } : TouchEnd(type)
  \/ Unmount
  \/ Frame

\* A step that runs the pending frame callbacks.  Frame is the only action that
\* empties a non-empty frame queue, and it always empties it, so these are the
\* Frame steps, enabled exactly while a callback is pending.
FrameRuns == rafQueue # << >> /\ rafQueue' = << >>

SpecLive == Init /\ [][NextLive]_vars /\ WF_rafQueue(FrameRuns)

\* The drag pipeline alone (press, move, end, frame, prop update, unmount), with
\* the frames and the processed updates counted.  Focus, hover and keyboard
\* events are left out: they touch neither dragRunning nor the frame queue.
NextFrames ==
  \/ \E pos \in Positions : TrackMouseDown(pos)
  \/ \E pos \in Positions : HandleMouseDown(pos)
  \/ \E pos \in Positions : TrackTouchStart(pos)
  \/ \E pos \in Positions : HandleTouchStart(pos)
  \/ \E pos \in Positions : MouseMove(pos)
  \/ \E pos \in Positions : TouchMove(pos)
  \/ \E over \in BOOLEAN : MouseUp(over)
  \/ \E type \in { "touchend", "touchcancel" } : TouchEnd(type)
  \/ \E v \in ExternalValues(props) \cup { Undefined }, d \in BOOLEAN : ReceiveProps(v, d)
  \/ Unmount
  \/ CountedFrame

SpecFrames == Init /\ [][NextFrames]_vars

-----------------------------------------------------------------------------
(* Mounting alone: the props the parent supplies are kept, so that the state
   componentWillMount computes can be compared with them *)

\* the configurations of the Slider, and one whose range is empty (min = max)
MountConfigs == Configs \cup { [min |-> 10, max |-> 10, step |-> 20] }

\* what a parent may supply as value or as defaultValue: nothing, or a value
\* within [min, max]
SuppliedValues(cfg) == { v \in ExternalValues(cfg) : v <= cfg.max } \cup { Undefined }

\* the constructed component, componentWillMount not yet called
InitMount ==
  \E cfg \in MountConfigs, disabled \in BOOLEAN :
    \E propValue \in SuppliedValues(cfg), defaultValue \in SuppliedValues(cfg) :
      /\ props = [min |-> cfg.min, max |-> cfg.max, step |-> cfg.step,
                  disabled |-> disabled, value |-> propValue,
                  defaultValue |-> defaultValue]
      /\ state = [ active |-> FALSE, dragging |-> FALSE, focused |-> FALSE,
                   hovered |-> FALSE, percent |-> Rat(0, 1), value |-> 0 ]
      /\ dragRunning = FALSE
      /\ listeners = { }
      /\ rafQueue = << >>
      /\ mounted = FALSE
      /\ notified = << >>
      /\ last = Event("constructor", 0)
      /\ frames = 0
      /\ processed = 0
      /\ NoStyleCall

\* React mounts the component: componentWillMount()
Mount ==
  /\ ~mounted
  /\ last.op = "constructor"
  /\ state' = componentWillMount(props, props.value, props.defaultValue)
  /\ mounted' = TRUE
  /\ last' = Event("mount", 0)
  /\ UNCHANGED <<props, dragRunning, listeners, rafQueue, notified, frames, processed,
                 styleVars>>

NextMount ==
  \/ Mount
  \/ Unmount

SpecMount == InitMount /\ [][NextMount]_vars

-----------------------------------------------------------------------------
(* Style utility: CSS values *)

\* A CSS value is a sequence of tokens, each a piece of text or an integer.
Txt(s) == [k |-> "txt", s |-> s, n |-> 0]

Num(n) == [k |-> "num", s |-> "", n |-> n]

Space == Txt(" ")

\* name(n unit)
Fn1(name, n, unit) == <<Txt(name), Num(n), Txt(unit), Txt(")")>>

\* name(a unit, b unit)
Fn2(name, a, b, unit) ==
  <<Txt(name), Num(a), Txt(unit), Txt(","), Space, Num(b), Txt(unit), Txt(")")>>

IsNum(v, i) == i \in 1 .. Len(v) /\ v[i].k = "num"

IsTxt(v, i, texts) == i \in 1 .. Len(v) /\ v[i].k = "txt" /\ v[i].s \in texts

\* (^|\s) in front of the token at i
AtStartOrAfterSpace(v, i) == i = 1 \/ v[i - 1] = Space

\* \s* from i on: the index of the first token that is not white space
RECURSIVE SkipSpaces(_, _)
SkipSpaces(v, i) == IF i <= Len(v) /\ v[i] = Space THEN SkipSpaces(v, i + 1) ELSE i

\* the leftmost of the positions where a regular expression matches
Leftmost(positions) == CHOOSE i \in positions : \A j \in positions : i <= j

\* v with its tokens from..to replaced by the tokens of by
ReplaceTokens(v, from, to, by) == SubSeq(v, 1, from - 1) \o by \o SubSeq(v, to + 1, Len(v))

\* reTranslate, /((^|\s)translate(3d|X)?\()(\-?[\d]+)/: the positions of the
\* function names where it matches
reTranslate(v) ==
  { i \in 1 .. Len(v) :
      /\ IsTxt(v, i, { "translate(", "translate3d(", "translateX(" })
      /\ AtStartOrAfterSpace(v, i)
      /\ IsNum(v, i + 1) }

\* reSkew,
\* /((^|\s)skew(x|y)?\()\s*(\-?[\d]+)(deg|rad|grad)(,\s*(\-?[\d]+)(deg|rad|grad))?/:
\* the positions of the function names where it matches
reSkew(v) ==
  { i \in 1 .. Len(v) :
      /\ IsTxt(v, i, { "skew(", "skewx(", "skewy(" })
      /\ AtStartOrAfterSpace(v, i)
      /\ IsNum(v, SkipSpaces(v, i + 1))
      /\ IsTxt(v, SkipSpaces(v, i + 1) + 1, { "deg", "rad", "grad" }) }

\* case 'transform', first part: value.match(reTranslate) and the replacement of
\* matches[0] by matches[1] + (-parseFloat(matches[4]))
FlipTranslate(v) ==
  IF reTranslate(v) = { } THEN v
  ELSE LET i == Leftmost(reTranslate(v))
       IN  [v EXCEPT ![i + 1] = Num(0 - v[i + 1].n)]

\* case 'transform', second part: value.match(reSkew) and the replacement of
\* matches[0].  The replacement is written
\*   matches[1] + (-parseFloat(matches[4])) + matches[5] + matches[6] ? a : b
\* which JavaScript reads as (matches[1] + ... + matches[6]) ? a : b; the
\* condition is a string that is never empty, so the replacement is always
\*   a = ',' + (-parseFloat(matches[7])) + matches[8]
\* and, when the second angle is missing, ',' + NaN + undefined.
FlipSkew(v) ==
  IF reSkew(v) = { } THEN v
  ELSE LET i == Leftmost(reSkew(v))
           from == IF i = 1 THEN 1 ELSE i - 1
           a1 == SkipSpaces(v, i + 1)
           a2 == SkipSpaces(v, a1 + 3)
           second == /\ IsTxt(v, a1 + 2, { "," })
                     /\ IsNum(v, a2)
                     /\ IsTxt(v, a2 + 1, { "deg", "rad", "grad" })
       IN  IF second
             THEN ReplaceTokens(v, from, a2 + 1, <<Txt(","), Num(0 - v[a2].n), v[a2 + 1]>>)
             ELSE ReplaceTokens(v, from, a1 + 1, <<Txt(","), Txt("NaN"), Txt("undefined")>>)

\* value.replace(from, to) on the first token that reads from
ReplaceFirst(v, from, to) ==
  LET at == { i \in 1 .. Len(v) : v[i] = Txt(from) }
  IN  IF at = { } THEN v ELSE [v EXCEPT ![Leftmost(at)] = Txt(to)]

\* case 'transformOrigin'
FlipOrigin(v) ==
  IF \E i \in 1 .. Len(v) : v[i] = Txt("right") THEN ReplaceFirst(v, "right", "left")
  ELSE IF \E i \in 1 .. Len(v) : v[i] = Txt("left") THEN ReplaceFirst(v, "left", "right")
  ELSE v

-----------------------------------------------------------------------------
(* Style utility: descriptors *)

\* A style descriptor is a function from attribute names to CSS values.

\* merge(a, b), of utils/immutability-helper: b's entries over a's
merge(a, b) ==
  [attribute \in DOMAIN a \cup DOMAIN b |->
     IF attribute \in DOMAIN b THEN b[attribute] ELSE a[attribute]]

\* AutoPrefix.all(style): the descriptor with the vendor-prefixed variants added
AutoPrefixAll(st) ==
  IF "transform" \in DOMAIN st
    THEN merge(st, [attribute \in { "WebkitTransform", "msTransform" } |-> st["transform"]])
    ELSE st

\* flippedAttributes
flippedAttributes ==
  [ right |-> "left", left |-> "right",
    marginRight |-> "marginLeft", marginLeft |-> "marginRight",
    paddingRight |-> "paddingLeft", paddingLeft |-> "paddingRight",
    borderRight |-> "borderLeft", borderLeft |-> "borderRight" ]

\* mutant: no attribute is relocated
KeepKey(attribute) == attribute

\* the key an attribute is stored under
NewKey(attribute) ==
  IF attribute \in DOMAIN flippedAttributes THEN flippedAttributes[attribute] ELSE attribute

\* the switch on the attribute: the value stored
NewValue(attribute, value) ==
  CASE attribute \in { "float", "textAlign" } ->
         IF value = <<Txt("right")>> THEN <<Txt("left")>>
         ELSE IF value = <<Txt("left")>> THEN <<Txt("right")>>
         ELSE value
    [] attribute = "direction" ->
         IF value = <<Txt("ltr")>> THEN <<Txt("rtl")>>
         ELSE IF value = <<Txt("rtl")>> THEN <<Txt("ltr")>>
         ELSE value
    [] attribute = "transform" -> FlipSkew(FlipTranslate(value))
    [] attribute = "transformOrigin" -> FlipOrigin(value)
    [] OTHER -> value

\* mutant: only the attributes of flippedAttributes are copied
newStyleOfFlippedOnly(st) ==
  [key \in { NewKey(attribute) : attribute \in DOMAIN st \cap DOMAIN flippedAttributes } |->
     LET attribute == CHOOSE a \in DOMAIN st : NewKey(a) = key
     IN  NewValue(attribute, st[attribute])]

\* the loop over Object.keys(style): newStyle[key] = value
newStyle(st) ==
  [key \in { NewKey(attribute) : attribute \in DOMAIN st } |->
     LET attribute == CHOOSE a \in DOMAIN st : NewKey(a) = key
     IN  NewValue(attribute, st[attribute])]

\* mutant: the descriptor is not marked
WithoutDidFlip(env, st) == st

\* outside production the descriptor is marked: merge({didFlip: 'true'}, style)
WithDidFlip(env, st) ==
  IF env # "production"
    THEN merge([attribute \in { "didFlip" } |-> <<Txt("true")>>], st)
    ELSE st

\* ensureDirection(muiTheme, style): the descriptor returned, and whether the
\* warning was raised
ensureDirection(theme, env, st) ==
  LET marked == WithDidFlip(env, st)
  IN  [ style |-> IF theme # "rtl" THEN marked ELSE newStyle(marked),
        warned |-> env # "production" /\ "didFlip" \in DOMAIN st ]

\* prepareStyles(muiTheme, ...styles)
prepareStyles(theme, env, styles) ==
  LET merged == IF Len(styles) > 1 THEN merge(styles[1], styles[2]) ELSE styles[1]
      result == ensureDirection(theme, env, merged)
  IN  [ style |-> AutoPrefixAll(result.style), warned |-> result.warned ]

-----------------------------------------------------------------------------
(* Style utility: the descriptors handed to it, and the calls *)

\* at most this many attributes in a descriptor
MaxKeys == 2

\* transform values: one, two and no translate function, translate functions
\* that are not mirrored, skew functions with one and two angles
TransformValues ==
  { Fn1("translateX(", 10, "px"),
    Fn2("translate(", 0 - 5, 3, "px"),
    Fn1("translateX(", 10, "px") \o <<Space>> \o Fn1("translateX(", 5, "px"),
    Fn1("rotate(", 45, "deg")
      \o <<Space, Txt("translate3d("), Num(4), Txt("px"), Txt(","), Space, Num(0),
           Txt(","), Space, Num(0), Txt(")")>>,
    Fn1("translateY(", 5, "px"),
    Fn1("rotate(", 45, "deg"),
    Fn1("skew(", 10, "deg"),
    Fn2("skew(", 10, 0 - 5, "deg"),
    Fn1("skewX(", 10, "deg") }

\* the values an attribute takes
ValuesOf(attribute) ==
  CASE attribute \in { "left", "marginLeft", "paddingLeft", "borderLeft" } ->
         { <<Num(4), Txt("px")>> }
    [] attribute \in { "right", "marginRight", "paddingRight", "borderRight" } ->
         { <<Num(8), Txt("px")>> }
    [] attribute \in { "float", "textAlign" } ->
         { <<Txt("left")>>, <<Txt("right")>>, <<Txt("none")>> }
    [] attribute = "direction" -> { <<Txt("ltr")>>, <<Txt("rtl")>>, <<Txt("inherit")>> }
    [] attribute = "transform" -> TransformValues
    [] attribute = "transformOrigin" ->
         { <<Txt("left"), Space, Txt("top")>>, <<Txt("right")>>, <<Txt("center")>> }
    [] OTHER -> { <<Txt("red")>> }

StyleKeys ==
  DOMAIN flippedAttributes
    \cup { "float", "textAlign", "direction", "transform", "transformOrigin",
           "color", "cursor" }

\* the descriptors over the attributes of keys
RECURSIVE Descriptors(_)
Descriptors(keys) ==
  IF Cardinality(keys) = 1
    THEN { [attribute \in keys |-> value] : value \in ValuesOf(CHOOSE k \in keys : TRUE) }
    ELSE LET k == CHOOSE k \in keys : TRUE
         IN  { merge(st, [attribute \in { k } |-> value]) :
                 st \in Descriptors(keys \ { k }), value \in ValuesOf(k) }

\* descriptors that have never gone through ensureDirection
Styles ==
  UNION { Descriptors(keys) :
            keys \in { ks \in SUBSET StyleKeys : Cardinality(ks) \in 1 .. MaxKeys } }

\* a second descriptor given to prepareStyles
ExtraStyle == [attribute \in { "cursor" } |-> <<Txt("pointer")>>]

\* no Slider: the style utility is called on its own
NoSlider ==
  /\ props = << >>
  /\ state = << >>
  /\ dragRunning = FALSE
  /\ listeners = { }
  /\ rafQueue = << >>
  /\ mounted = FALSE
  /\ notified = << >>
  /\ frames = 0
  /\ processed = 0

\* a theme, a build and a descriptor to hand over
InitStyle ==
  /\ muiTheme \in { "undefined", "ltr", "rtl" }
  /\ nodeEnv \in { "development", "production" }
  /\ flipped \in Styles
  /\ style = flipped
  /\ warned = FALSE
  /\ origin = "input"
  /\ last = Event("none", 0)
  /\ NoSlider

\* what a call of the style utility leaves behind
Returned(result, from) ==
  /\ style' = from
  /\ flipped' = result.style
  /\ warned' = result.warned
  /\ origin' = IF last.op = "none" THEN "input" ELSE last.op

\* ensureDirection is called on the descriptor at hand
EnsureDirection ==
  /\ Returned(ensureDirection(muiTheme, nodeEnv, flipped), flipped)
  /\ last' = Event("ensureDirection", 0)
  /\ UNCHANGED <<muiTheme, nodeEnv, props, state, dragRunning, listeners, rafQueue,
                 mounted, notified, frames, processed>>

\* prepareStyles is called on the descriptor at hand, alone or with a second one
PrepareStyles(extra) ==
  /\ Returned(prepareStyles(muiTheme, nodeEnv,
                            IF extra THEN <<flipped, ExtraStyle>> ELSE <<flipped>>),
              flipped)
  /\ last' = Event("prepareStyles", 0)
  /\ UNCHANGED <<muiTheme, nodeEnv, props, state, dragRunning, listeners, rafQueue,
                 mounted, notified, frames, processed>>

NextStyle ==
  \/ EnsureDirection
  \/ \E extra \in BOOLEAN : PrepareStyles(extra)

SpecStyle == InitStyle /\ [][NextStyle]_vars

-----------------------------------------------------------------------------
(* Vocabulary of the claims *)

PressEvents == { "TrackMouseDown", "HandleMouseDown", "TrackTouchStart", "HandleTouchStart" }

MoveEvents == { "MouseMove", "TouchMove" }

DragEndEvents == { "MouseUp", "TouchEnd" }

UserEvents ==
  PressEvents \cup MoveEvents \cup DragEndEvents
    \cup { "KeyDown", "Focus", "Blur", "MouseEnter", "MouseLeave" }

Fired(notes, name) == \E i \in 1 .. Len(notes) : notes[i].name = name

FiredWith(notes, name, arg) == \E i \in 1 .. Len(notes) : notes[i] = Note(name, arg)

MouseListeners == { <<"mousemove", "dragHandler">>, <<"mouseup", "dragEndHandler">> }

TouchListeners ==
  { <<"touchmove", "dragTouchHandler">>, <<"touchup", "dragTouchEndHandler">>,
    <<"touchend", "dragTouchEndHandler">>, <<"touchcancel", "dragTouchEndHandler">> }

\* clamp(q, 0, 1)
Clamp01(q) ==
  IF RatLeq(q, Rat(0, 1)) THEN Rat(0, 1)
  ELSE IF RatLeq(Rat(1, 1), q) THEN Rat(1, 1)
  ELSE q

-----------------------------------------------------------------------------
(* C1 *)

\* C1: at any moment at most one animation-frame update is pending; a move event
\* that arrives while one is pending is discarded, the pending one left as it is;
\* and the processed move updates never outnumber the animation frames run.
C1_MoveUpdatesCoalesced ==
  /\ [](Len(rafQueue) <= 1 /\ processed <= frames)
  /\ [][(last'.op \in MoveEvents /\ rafQueue # << >>)
          => (rafQueue' = rafQueue /\ state' = state /\ notified' = << >>)]_vars

\* a move arrived with an update pending, after a frame has processed an earlier one
C1_Witness ==
  /\ last.op \in MoveEvents
  /\ Len(rafQueue) = 1
  /\ dragRunning
  /\ frames >= 1
  /\ processed = frames

-----------------------------------------------------------------------------
(* C2, C3 *)

\* C2: after any sequence of user interactions, with min < max, step > 0 and the
\* initial and supplied values within [min, max], min <= currentValue <= max.
C2_ValueWithinBounds ==
  props.min <= state.value /\ state.value <= props.max

\* C3: in every reachable state currentPercent is
\* clamp((currentValue - min) / (max - min), 0, 1).
C3_PercentIsClampedRatio ==
  state.percent = Clamp01(Rat(state.value - props.min, props.max - props.min))

-----------------------------------------------------------------------------
(* C4, C5 *)

\* C4: whenever the mounted slider is idle, none of its drag listeners is
\* registered on the document.
C4_NoListenerWhenIdle ==
  (mounted /\ ~state.dragging) => listeners = { }

\* C5: no listener of an unmounted slider stays registered on the document.
C5_NoListenerAfterUnmount ==
  ~mounted => listeners = { }

-----------------------------------------------------------------------------
(* C6 *)

\* C6: a value supplied from outside is applied at once when the slider is idle
\* (currentValue becomes it, currentPercent is recomputed from it) and is ignored
\* (currentValue and currentPercent unchanged) while a drag is in progress.
C6_ExternalValueUnlessDragging ==
  [][(last'.op = "ReceiveProps" /\ last'.arg # Undefined)
       => IF state.dragging
            THEN state'.value = state.value /\ state'.percent = state.percent
            ELSE /\ state'.value = last'.arg
                 /\ state'.percent.n * (props.max - props.min)
                      = (last'.arg - props.min) * state'.percent.d]_vars

\* a value other than the current one was supplied during a drag
C6_Witness ==
  /\ last.op = "ReceiveProps"
  /\ last.arg # Undefined
  /\ last.arg # state.value
  /\ state.dragging

-----------------------------------------------------------------------------
(* C7 *)

\* C7: a pointer-down or touch-start on the track or the handle while disabled
\* causes no transition (dragging, active, value and percent stay as they are),
\* attaches no document listener and fires neither onDragStart nor onChange.
C7_PressWhileDisabledIsInert ==
  [][(last'.op \in PressEvents /\ props.disabled)
       => /\ state'.dragging = state.dragging
          /\ state'.active = state.active
          /\ state'.value = state.value
          /\ state'.percent = state.percent
          /\ listeners' = listeners
          /\ ~Fired(notified', "onDragStart")
          /\ ~Fired(notified', "onChange")]_vars

\* a press arrived at an idle, disabled slider
C7_Witness ==
  /\ last.op \in PressEvents
  /\ props.disabled
  /\ ~state.dragging
  /\ listeners = { }

-----------------------------------------------------------------------------
(* C8 *)

\* C8 as stated: while disabled, no user input event of any kind changes a field
\* of the state or fires a notification.
C8_AllInputInertWhileDisabled ==
  [][(last'.op \in UserEvents /\ props.disabled)
       => (state' = state /\ notified' = << >>)]_vars

\* C8 amended: while disabled, pointer-down, touch-start, key-down and move
\* events change no field of the state and fire no notification; focus, blur and
\* hover events still set focused, active and hovered (firing onFocus, onBlur),
\* and a drag-end event that reaches its document listener still ends the drag
\* (firing onDragStop); none of them changes value or percent.
C8_PressKeyMoveInertWhileDisabled ==
  [][(last'.op \in UserEvents /\ props.disabled)
       => /\ state'.value = state.value
          /\ state'.percent = state.percent
          /\ ~Fired(notified', "onChange")
          /\ ~Fired(notified', "onDragStart")
          /\ last'.op \in PressEvents \cup MoveEvents \cup { "KeyDown" }
               => (state' = state /\ notified' = << >>)
          /\ last'.op = "Focus"
               => (state' = [state EXCEPT !.focused = TRUE]
                     /\ notified' = << Note("onFocus", 0) >>)
          /\ last'.op = "Blur"
               => (state' = [state EXCEPT !.focused = FALSE, !.active = FALSE]
                     /\ notified' = << Note("onBlur", 0) >>)
          /\ last'.op = "MouseEnter" => state' = [state EXCEPT !.hovered = TRUE]
          /\ last'.op = "MouseLeave" => state' = [state EXCEPT !.hovered = FALSE]
          /\ (mounted /\ last'.op = "MouseUp")
               => IF <<"mouseup", "dragEndHandler">> \in listeners
                    THEN /\ state' = [state EXCEPT !.dragging = FALSE, !.active = FALSE]
                         /\ notified' = << Note("onDragStop", 0) >>
                    ELSE state' = state /\ notified' = << >>
          /\ (mounted /\ last'.op = "TouchEnd")
               => \/ /\ state' = [state EXCEPT !.dragging = FALSE, !.active = FALSE]
                     /\ notified' = << Note("onDragStop", 0) >>
                     /\ TouchListeners \subseteq listeners
                  \/ state' = state /\ notified' = << >>]_vars

\* a key was pressed on the focused handle of a disabled slider
C8_Witness ==
  /\ last.op = "KeyDown"
  /\ props.disabled
  /\ state.focused

-----------------------------------------------------------------------------
(* C9 *)

\* the value dragX gives a press at pos
JumpValue(pos) ==
  LET c == [props |-> props]
      p == Max2(0, Min2(TrackWidth, pos))
  IN  alignValue(c, percentToValue(c, Rat(p, TrackWidth)))

-----------------------------------------------------------------------------
(* C10 *)

\* C10 as stated: whenever the slider is dragging, a pointer-up, touch-end or
\* touch-cancel event anywhere in the document returns it to idle and fires
\* onDragStop.
C10_AnyEndEventStopsDrag ==
  [][(mounted /\ state.dragging /\ last'.op \in DragEndEvents)
       => (~state'.dragging /\ ~state'.active /\ Fired(notified', "onDragStop"))]_vars

\* C10 amended: whenever the slider is dragging, a pointer-up anywhere in the
\* document while the mouse listeners of a mouse press are registered, and a
\* touch-end or touch-cancel while the touch listeners of a touch press are
\* registered, returns it to idle, removes those listeners and fires onDragStop;
\* an end event of the other kind of gesture leaves it dragging.
C10_MatchingEndEventStopsDrag ==
  [][(mounted /\ state.dragging)
       => /\ (last'.op = "MouseUp" /\ <<"mouseup", "dragEndHandler">> \notin listeners)
               => (state'.dragging /\ ~Fired(notified', "onDragStop"))
          /\ (last'.op = "TouchEnd" /\ TouchListeners \cap listeners = { })
               => (state'.dragging /\ ~Fired(notified', "onDragStop"))
          /\ (last'.op = "MouseUp" /\ <<"mouseup", "dragEndHandler">> \in listeners)
               => /\ ~state'.dragging /\ ~state'.active
                  /\ Fired(notified', "onDragStop")
                  /\ listeners' = listeners \ MouseListeners
          /\ (last'.op = "TouchEnd" /\ <<"touchend", "dragTouchEndHandler">> \in listeners)
               => /\ ~state'.dragging /\ ~state'.active
                  /\ Fired(notified', "onDragStop")
                  /\ listeners' = listeners \ TouchListeners]_vars

\* a touch-end has just ended a drag
C10_Witness ==
  /\ last.op = "TouchEnd"
  /\ mounted
  /\ ~state.dragging
  /\ ~state.active
  /\ Fired(notified, "onDragStop")
  /\ listeners = { }

-----------------------------------------------------------------------------
(* C11 *)

\* the offset a drag update or a press is processed with: clamped to the track
ClampPos(pos) == IF pos < 0 THEN 0 ELSE IF pos > TrackWidth THEN TrackWidth ELSE pos

\* this step processes an update at the (clamped) offset p: a press on the track
\* of an enabled, idle slider, or a frame running the pending update of a drag
ProcessedAt(p) ==
  \/ /\ last'.op \in { "TrackMouseDown", "TrackTouchStart" }
     /\ ~props.disabled /\ ~state.dragging
     /\ ClampPos(last'.arg) = p
  \/ /\ last'.op = "Frame"
     /\ mounted /\ state.dragging /\ ~props.disabled
     /\ rafQueue # << >>
     /\ ClampPos(Head(rafQueue)) = p

\* min + k * step, up to the first one past max
StepGrid == { props.min + k * props.step : k \in 0 .. ((props.max - props.min) \div props.step + 1) }

\* twice the distance, in units of 1 / TrackWidth, from the raw value of offset p
\* (min + p / TrackWidth * (max - min)) up to m
TwiceAbove(m, p) == 2 * (TrackWidth * (m - props.min) - p * (props.max - props.min))

\* the grid values nearest to the raw value of offset p (two of them on a tie)
NearestSteps(p) ==
  { m \in StepGrid : Abs(TwiceAbove(m, p)) <= TrackWidth * props.step }

\* the same, a tie going to the higher one
NearestStepHalfUp(p) ==
  { m \in StepGrid : /\ TwiceAbove(m, p) <= TrackWidth * props.step
                     /\ TwiceAbove(m, p) > 0 - TrackWidth * props.step }

\* C11 (as stated): each processed drag update, and each track press, at clamped
\* offset p sets the value to the multiple of step, offset from min, nearest to
\* min + p / width * (max - min), and the percent to (value - min) / (max - min).
C11_UpdateSetsNearestStep ==
  [][\A p \in 0 .. TrackWidth :
       ProcessedAt(p) =>
         /\ state'.value \in NearestSteps(p)
         /\ state'.percent = Rat(state'.value - props.min, props.max - props.min)]_vars

\* C11 (amended): the value the update arrives at is that multiple (a tie going
\* to the higher one) rounded to 5 decimal places; when it differs from the
\* current value, value and percent are set, the percent to
\* (value - min) / (max - min), and onChange fires; when it does not, value and
\* percent stay as they are.
C11_UpdateSetsNearestStepRounded ==
  [][\A p \in 0 .. TrackWidth :
       ProcessedAt(p) =>
         \E m \in NearestStepHalfUp(p) :
           /\ state'.value = ToFixed5(m)
           /\ IF ToFixed5(m) # state.value
                THEN /\ state'.percent = Rat(ToFixed5(m) - props.min, props.max - props.min)
                     /\ FiredWith(notified', "onChange", ToFixed5(m))
                ELSE /\ state'.percent = state.percent
                     /\ ~Fired(notified', "onChange")]_vars

\* a frame has processed a drag update whose nearest multiple of step is not a
\* multiple of 10^-5: the value it set is off the grid
C11_Witness ==
  /\ last.op = "Frame"
  /\ state.dragging
  /\ Fired(notified, "onChange")
  /\ (state.value - props.min) % props.step # 0

-----------------------------------------------------------------------------
(* C12 *)

StepKeys == { "left", "down", "page down", "right", "up", "page up" }

\* C12: after an arrow or page key is pressed on an enabled slider the value is
\* a multiple of step offset from min, or a bound, whatever it was before.
C12_KeyStepKeepsValueOnGrid ==
  [][last'.op = "KeyDown" =>
       \A key \in StepKeys :
         (KeyDown(key) /\ ~props.disabled) =>
           \/ state'.value \in { props.min, props.max }
           \/ (state'.value - props.min) % props.step = 0]_vars

-----------------------------------------------------------------------------
(* C13 *)

\* C13: on an enabled slider the home key always leaves percent 0 and value
\* min, the end key percent 1 and value max.
C13_HomeEndReachBounds ==
  [][last'.op = "KeyDown" =>
       /\ (KeyDown("home") /\ ~props.disabled) =>
            (state'.percent = Rat(0, 1) /\ state'.value = props.min)
       /\ (KeyDown("end") /\ ~props.disabled) =>
            (state'.percent = Rat(1, 1) /\ state'.value = props.max)]_vars

-----------------------------------------------------------------------------
(* C14 *)

\* C14: a drag update, a press or a key press fires onChange exactly when it
\* changes the value, and then with the new value; one that leaves the value as
\* it is leaves the percent as it is too.
C14_OnChangeIffValueChanges ==
  [][last'.op \in PressEvents \cup { "Frame", "KeyDown" } =>
       /\ Fired(notified', "onChange") <=> state'.value # state.value
       /\ Fired(notified', "onChange") => FiredWith(notified', "onChange", state'.value)
       /\ state'.value = state.value => state'.percent = state.percent]_vars

-----------------------------------------------------------------------------
(* C15 *)

\* C15: on mount the value is the value prop if supplied, otherwise defaultValue
\* if supplied, otherwise min; the percent is (value - min) / (max - min), and 0
\* when min = max = value.
C15_MountTakesValueThenDefaultThenMin ==
  last.op = "mount" =>
    /\ props.value # Undefined => state.value = props.value
    /\ (props.value = Undefined /\ props.defaultValue # Undefined)
         => state.value = props.defaultValue
    /\ (props.value = Undefined /\ props.defaultValue = Undefined)
         => state.value = props.min
    /\ props.max # props.min
         => /\ state.percent.d # 0
            /\ state.percent.n * (props.max - props.min)
                 = (state.value - props.min) * state.percent.d
    /\ (props.max = props.min /\ state.value = props.min)
         => state.percent = Rat(0, 1)

\* mounted with a defaultValue and no value, on an empty range: the percent fell
\* back to 0
C15_Witness ==
  /\ last.op = "mount"
  /\ props.value = Undefined
  /\ props.defaultValue # Undefined
  /\ state.value = props.defaultValue
  /\ props.min = props.max
  /\ state.percent = Rat(0, 1)

-----------------------------------------------------------------------------
(* C16 *)

\* ensureDirection has just been called, with a right-to-left theme, on a
\* descriptor that had never gone through it
FirstRtlCall == last.op = "ensureDirection" /\ origin = "input" /\ muiTheme = "rtl"

Mirrored(attribute) ==
  CASE attribute = "left" -> "right"
    [] attribute = "right" -> "left"
    [] attribute = "marginLeft" -> "marginRight"
    [] attribute = "marginRight" -> "marginLeft"
    [] attribute = "paddingLeft" -> "paddingRight"
    [] attribute = "paddingRight" -> "paddingLeft"
    [] attribute = "borderLeft" -> "borderRight"
    [] attribute = "borderRight" -> "borderLeft"
    [] OTHER -> attribute

\* the literal values float, textAlign and direction exchange
Swapped(attribute, value) ==
  IF attribute \in { "float", "textAlign" } /\ value = <<Txt("left")>> THEN <<Txt("right")>>
  ELSE IF attribute \in { "float", "textAlign" } /\ value = <<Txt("right")>> THEN <<Txt("left")>>
  ELSE IF attribute = "direction" /\ value = <<Txt("ltr")>> THEN <<Txt("rtl")>>
  ELSE IF attribute = "direction" /\ value = <<Txt("rtl")>> THEN <<Txt("ltr")>>
  ELSE value

\* the result holds the mirrored keys of the descriptor, none lost, none added
\* but the marker
KeysMirrored ==
  DOMAIN flipped \ { "didFlip" } = { Mirrored(attribute) : attribute \in DOMAIN style }

\* C16 (as stated): with a right-to-left theme the value of every left/right
\* key is found under the mirrored key (both keys of a pair exchanged, none
\* lost), left/right of float and textAlign and ltr/rtl of direction are
\* swapped, and every other key and value passes through unchanged.
C16_RtlMirrorsAndPassesAllElse ==
  FirstRtlCall =>
    /\ KeysMirrored
    /\ \A attribute \in DOMAIN style :
         flipped[Mirrored(attribute)] = Swapped(attribute, style[attribute])

\* C16 (amended): the same, every key other than transform and transformOrigin
\* passing through unchanged.
C16_RtlMirrorsAndPassesUnhandled ==
  FirstRtlCall =>
    /\ KeysMirrored
    /\ \A attribute \in DOMAIN style \ { "transform", "transformOrigin" } :
         flipped[Mirrored(attribute)] = Swapped(attribute, style[attribute])

\* a descriptor with both keys of a pair came back with their values exchanged
C16_Witness ==
  /\ FirstRtlCall
  /\ DOMAIN style = { "marginLeft", "marginRight" }
  /\ style["marginLeft"] # style["marginRight"]
  /\ flipped["marginLeft"] = style["marginRight"]
  /\ flipped["marginRight"] = style["marginLeft"]

-----------------------------------------------------------------------------
(* C17 *)

DirectionSensitive ==
  { "left", "right", "marginLeft", "marginRight", "paddingLeft", "paddingRight",
    "borderLeft", "borderRight", "float", "textAlign", "direction", "transform",
    "transformOrigin" }

\* C17: for a descriptor without direction-sensitive keys ensureDirection
\* returns, whatever the theme, a descriptor equal to its input apart from the
\* marker of the development build.
C17_IdentityWithoutDirectionKeys ==
  (last.op = "ensureDirection" /\ DOMAIN style \cap DirectionSensitive = { }) =>
    /\ DOMAIN flipped \ { "didFlip" } = DOMAIN style \ { "didFlip" }
    /\ \A attribute \in DOMAIN style \ { "didFlip" } : flipped[attribute] = style[attribute]
    /\ nodeEnv = "production" => flipped = style

\* a descriptor of two indifferent keys came back from a right-to-left call in a
\* development build: the same, and marked
C17_Witness ==
  /\ last.op = "ensureDirection"
  /\ muiTheme = "rtl"
  /\ nodeEnv = "development"
  /\ DOMAIN style = { "color", "cursor" }
  /\ DOMAIN flipped = { "color", "cursor", "didFlip" }
  /\ flipped["color"] = style["color"]

-----------------------------------------------------------------------------
(* C18 *)

\* C18: in a development build a call of ensureDirection or prepareStyles on a
\* descriptor that an earlier ensureDirection call returned raises the
\* duplicate-flip warning and returns a descriptor all the same; a call on a
\* descriptor that was never flipped raises none.
C18_WarnsOnSecondFlipOnly ==
  (nodeEnv = "development" /\ last.op \in { "ensureDirection", "prepareStyles" }) =>
    /\ origin = "ensureDirection" =>
         (warned /\ DOMAIN flipped \ { "didFlip" } # { })
    /\ origin = "input" => ~warned

\* prepareStyles was handed what a right-to-left ensureDirection had returned
C18_Witness ==
  /\ nodeEnv = "development"
  /\ muiTheme = "rtl"
  /\ last.op = "prepareStyles"
  /\ origin = "ensureDirection"
  /\ "didFlip" \in DOMAIN style
  /\ warned

-----------------------------------------------------------------------------
(* C19 *)

\* the token at j is an argument of a skew, skewX or skewY function
InSkew(v, j) ==
  \E i \in 1 .. (j - 1) :
    /\ IsTxt(v, i, { "skew(", "skewX(", "skewY(" })
    /\ \A m \in (i + 1) .. (j - 1) : v[m] # Txt(")")

\* v with every angle of every skew function negated
NegateSkews(v) ==
  [j \in 1 .. Len(v) |-> IF v[j].k = "num" /\ InSkew(v, j) THEN Num(0 - v[j].n) ELSE v[j]]

\* the token at j is the first argument of a translate, translate3d or
\* translateX function
FirstOfTranslate(v, j) ==
  j > 1 /\ IsTxt(v, j - 1, { "translate(", "translate3d(", "translateX(" })

\* v with the first argument of every translate function negated
NegateTranslates(v) ==
  [j \in 1 .. Len(v) |->
     IF v[j].k = "num" /\ FirstOfTranslate(v, j) THEN Num(0 - v[j].n) ELSE v[j]]

HasSkew(v) == \E j \in 1 .. Len(v) : IsTxt(v, j, { "skew(", "skewX(", "skewY(" })

HasTranslate(v) ==
  \E j \in 1 .. Len(v) : IsTxt(v, j, { "translate(", "translate3d(", "translateX(" })

\* C19: with a right-to-left theme every skew, skewX and skewY function of a
\* transform (one without translate functions, here) comes back with its first
\* angle negated, its second angle, if present, negated too, and the rest of the
\* value as it was.
C19_RtlNegatesSkewAngles ==
  (FirstRtlCall /\ "transform" \in DOMAIN style /\ ~HasTranslate(style["transform"])) =>
    flipped["transform"] = NegateSkews(style["transform"])

-----------------------------------------------------------------------------
(* C20 *)

\* C20: with a right-to-left theme every translate, translate3d and translateX
\* function of a transform (one without skew functions, here) comes back with
\* the sign of its first argument negated and the rest as it was; a transform
\* without such functions comes back unmodified.
C20_RtlNegatesEveryTranslate ==
  (FirstRtlCall /\ "transform" \in DOMAIN style /\ ~HasSkew(style["transform"])) =>
    flipped["transform"] = NegateTranslates(style["transform"])

-----------------------------------------------------------------------------
(* C21 *)

\* C21: an animation-frame callback that runs while no drag is in progress (the
\* drag ended between the move event and the frame) changes neither the value
\* nor the percent and fires no onChange.
C21_FrameAfterDragEndIsInert ==
  [][(last'.op = "Frame" /\ ~state.dragging) =>
       /\ state'.value = state.value
       /\ state'.percent = state.percent
       /\ ~Fired(notified', "onChange")]_vars

\* a frame has run the pending update of a drag that a drag-end event had
\* stopped in the meantime: the update was handed to onDragUpdate, which
\* dropped it
C21_Witness ==
  /\ last.op = "Frame"
  /\ mounted
  /\ ~state.dragging
  /\ listeners = { }
  /\ notified = << >>

-----------------------------------------------------------------------------
(* C22 *)

\* the number of notifications called name among notes
Count(notes, name) == Cardinality({ i \in 1 .. Len(notes) : notes[i].name = name })

\* C22: onDragStart and onDragStop alternate, onDragStart first: an event fires
\* onDragStart at most once, and only when no drag is in progress; it fires
\* onDragStop at most once, and only for a drag in progress.
C22_DragStartAndStopAlternate ==
  [][/\ Count(notified', "onDragStart") <= 1
     /\ Count(notified', "onDragStop") <= 1
     /\ Fired(notified', "onDragStart") => ~state.dragging
     /\ Fired(notified', "onDragStop") => state.dragging]_vars

-----------------------------------------------------------------------------
(* C23 *)

\* C23: while disabled no user input, the pending update of a drag that was in
\* progress when the slider became disabled included, changes the value or the
\* percent or fires onChange.
C23_NoValueChangeWhileDisabled ==
  [][(props.disabled /\ last'.op \in UserEvents \cup { "Frame" }) =>
       /\ state'.value = state.value
       /\ state'.percent = state.percent
       /\ ~Fired(notified', "onChange")]_vars

\* a frame has run the pending update of a drag in progress on a slider that is
\* disabled: the update was handed to onDragUpdate, which dropped it
C23_Witness ==
  /\ last.op = "Frame"
  /\ mounted
  /\ props.disabled
  /\ state.dragging
  /\ notified = << >>

-----------------------------------------------------------------------------
(* C24 *)

\* C24: every scheduled animation-frame callback eventually running, the
\* move-coalescing flag, once set, is eventually cleared (and the pending update
\* executed), so that a later move event is scheduled rather than dropped.
C24_FlagEventuallyCleared == dragRunning ~> (~dragRunning /\ rafQueue = << >>)

====
